---- MODULE Spec2Model ----
(***************************************************************************)
(* A model of stats-parse: the streaming stats-line Parser (src/parser.go) *)
(* and the per-BoM directory aggregation built on it                       *)
(* (src/bomdirstats.go), with the GID -> BoM lookup of GIDToBoM.           *)
(*                                                                         *)
(* Bytes are their integer values, byte slices and strings are sequences   *)
(* of bytes, so that slicing, tab scanning, digit accumulation, base64     *)
(* decoding and string comparison are computed as the code computes them.  *)
(* *Stats pointers are indices into a heap of Stats records.               *)
(***************************************************************************)
EXTENDS Integers, Sequences, FiniteSets, TLC

\* ------------------------------------------------------------------ bounds

\* Longest input, in lines.
MaxLines == 2

\* Largest size column of a generated record.
MaxSize == 2

\* The instant time.Now().Add(-d).Unix() of FilterForFilesOlderThan.
CutoffEpoch == 10

\* ------------------------------------------------------- program constants

TAB == 9

Slash == 47

fileType == 102

dirType == 100

ZeroDigit == 48

PadChar == 61

ErrBadPath == "ErrBadPath"

ErrTooFewColumns == "ErrTooFewColumns"

ErrInvalidGID == "ErrInvalidGID"

NoError == "nil"

\* io.EOF: the reader has no more bytes.
EOF == "EOF"

\* bufio.ErrTooLong: a line does not fit the scanner's buffer of maxLineLength.
ErrTooLong == "bufio.Scanner: token too long"

\* --------------------------------------------------------- byte sequences

Min2(a, b) == IF a < b THEN a ELSE b

\* s[lo:hi] of Go, on 0-based indices: bytes lo .. hi-1.
Slice(s, lo, hi) == SubSeq(s, lo + 1, hi)

RECURSIVE StrCompare(_, _)
\* cmp.Compare on two strings: -1, 0 or +1 by lexicographic byte order.
StrCompare(a, b) ==
    IF a = <<>> /\ b = <<>> THEN 0
    ELSE IF a = <<>> THEN -1
    ELSE IF b = <<>> THEN 1
    ELSE IF Head(a) < Head(b) THEN -1
    ELSE IF Head(a) > Head(b) THEN 1
    ELSE StrCompare(Tail(a), Tail(b))

\* cmp.Compare on two integers.
IntCompare(a, b) == IF a < b THEN -1 ELSE IF a > b THEN 1 ELSE 0

\* strings.Count(s, "/").
CountSlash(s) == Cardinality({i \in 1..Len(s) : s[i] = Slash})

RECURSIVE Digits(_)
\* The decimal text of a non-negative integer, as the producer writes it.
Digits(n) ==
    IF n < 10 THEN <<ZeroDigit + n>>
    ELSE Append(Digits(n \div 10), ZeroDigit + (n % 10))

\* ----------------------------------------------------------------- base64

\* The value of a character of the standard alphabet, -1 for any other byte.
DecodeMap(c) ==
    IF c >= 65 /\ c <= 90 THEN c - 65
    ELSE IF c >= 97 /\ c <= 122 THEN c - 71
    ELSE IF c >= 48 /\ c <= 57 THEN c + 4
    ELSE IF c = 43 THEN 62
    ELSE IF c = 47 THEN 63
    ELSE -1

\* The character of the standard alphabet for a 6-bit value.
EncodeMap(v) ==
    IF v < 26 THEN v + 65
    ELSE IF v < 52 THEN v + 71
    ELSE IF v < 62 THEN v - 4
    ELSE IF v = 62 THEN 43
    ELSE 47

RECURSIVE Encode64(_)
\* base64.StdEncoding.EncodeToString, as the producer of the stats file uses it.
Encode64(s) ==
    IF Len(s) = 0 THEN <<>>
    ELSE IF Len(s) = 1 THEN
        <<EncodeMap(s[1] \div 4), EncodeMap((s[1] % 4) * 16), PadChar, PadChar>>
    ELSE IF Len(s) = 2 THEN
        <<EncodeMap(s[1] \div 4),
          EncodeMap((s[1] % 4) * 16 + s[2] \div 16),
          EncodeMap((s[2] % 16) * 4), PadChar>>
    ELSE
        <<EncodeMap(s[1] \div 4),
          EncodeMap((s[1] % 4) * 16 + s[2] \div 16),
          EncodeMap((s[2] % 16) * 4 + s[3] \div 64),
          EncodeMap(s[3] % 64)>> \o Encode64(SubSeq(s, 4, Len(s)))

\* The three bytes of four 6-bit values.
Quantum3(a, b, c, d) ==
    <<a * 4 + b \div 16, (b % 16) * 16 + c \div 4, (c % 4) * 64 + d>>

\* decodeQuantum of encoding/base64 on the (at most four) characters q that
\* remain at offset si, rest telling whether input follows them: the bytes
\* written to dst and whether the input is corrupt.  Input lines hold neither
\* '\r' nor '\n', so the skipping of those two bytes is left out.
DecodeQuantum(q, rest) ==
    LET v(i) == DecodeMap(q[i])
        bad == [out |-> <<>>, err |-> TRUE]
    IN  IF Len(q) = 0 THEN [out |-> <<>>, err |-> FALSE]
        ELSE IF v(1) < 0 THEN bad
        ELSE IF Len(q) = 1 THEN bad
        ELSE IF v(2) < 0 THEN bad
        ELSE IF Len(q) = 2 THEN bad
        ELSE IF v(3) < 0 THEN
            \* only "==" may follow two characters
            IF q[3] # PadChar THEN bad
            ELSE IF Len(q) = 3 THEN bad
            ELSE IF q[4] # PadChar THEN bad
            ELSE [out |-> SubSeq(Quantum3(v(1), v(2), 0, 0), 1, 1), err |-> rest]
        ELSE IF Len(q) = 3 THEN bad
        ELSE IF v(4) < 0 THEN
            IF q[4] # PadChar THEN bad
            ELSE [out |-> SubSeq(Quantum3(v(1), v(2), v(3), 0), 1, 2), err |-> rest]
        ELSE [out |-> Quantum3(v(1), v(2), v(3), v(4)), err |-> FALSE]

RECURSIVE Decode64(_)
\* base64.StdEncoding.Decode(dst, src): the bytes written to the front of dst
\* (the quanta before a corrupt one stay written) and whether src is corrupt.
Decode64(src) ==
    IF Len(src) = 0 THEN [out |-> <<>>, err |-> FALSE]
    ELSE
        LET n == Min2(4, Len(src))
            q == DecodeQuantum(SubSeq(src, 1, n), Len(src) > n)
        IN  IF q.err \/ Len(q.out) < 3 THEN q
            ELSE LET r == Decode64(SubSeq(src, n + 1, Len(src)))
                 IN  [out |-> q.out \o r.out, err |-> r.err]

\* ----------------------------------------------------------------- Parser

VARIABLES
    input,       \* the lines of the stats file, as the records they were written from
    sp,          \* the Parser
    heap,        \* the Stats values allocated so far; a *Stats is an index into it
    bomToStats,  \* getBoMDirectoryStats: BoM -> *Stats of its root
    results,     \* getBoMDirectoryStats: the *Stats in order of creation
    pc,          \* where BoMDirectoryStats is
    ret,         \* the []*Stats BoMDirectoryStats returned (nil is the empty slice)
    err,         \* the error BoMDirectoryStats returned
    bomGids,     \* the reader of bom.gids data given to NewGIDToBoM
    gp,          \* the *GIDToBoM that NewGIDToBoM returned
    gpErr,       \* the error that NewGIDToBoM returned
    lookup,      \* what the calls of gp.GetBom were given and returned
    firstCall,   \* what an earlier call of BoMDirectoryStats on the same input did
    bomToDirToStats  \* the flat aggregator's map from (BoM, directory) to *Stats

vars == <<input, sp, heap, bomToStats, results, pc, ret, err, bomGids, gp, gpErr, lookup,
          firstCall, bomToDirToStats>>

\* The variables of the GIDToBoM and of its caller.
gidVars == <<bomGids, gp, gpErr, lookup>>

\* No call of BoMDirectoryStats has returned yet: nothing was given to the
\* sort and nothing was returned.
NoFirstRun == [done |-> FALSE, unsorted |-> <<>>, ret |-> <<>>, err |-> NoError]

\* p.Path: the slice pathBuffer[:l] set by the last successful decodePath.  It
\* shares its bytes with pathBuffer.
Path(p) == SubSeq(p.pathBuffer, 1, p.PathLen)

\* New(r): a Parser over a reader that will yield the lines r.lines and then
\* r.end: the end of the file, or a line longer than maxLineLength, on which
\* the bufio.Scanner stops with ErrTooLong.  Of the zeroed pathBuffer only the
\* bytes written so far are kept.
New(r) ==
    [scanner          |-> [rest |-> r.lines, tok |-> <<>>, end |-> r.end,
                           err |-> NoError],
     pathBuffer       |-> <<>>,
     filter           |-> "noFilter",
     epochTimeDesired |-> 0,
     lineBytes        |-> <<>>,
     lineLength       |-> 0,
     lineIndex        |-> 0,
     PathLen          |-> 0,
     Size             |-> 0,
     GID              |-> 0,
     MTime            |-> 0,
     CTime            |-> 0,
     EntryType        |-> 0,
     error            |-> NoError]

noFilter(p) == TRUE

\* The slip of rejecting a file whose earlier time is exactly the cutoff.
filterForOldFilesStrictlyOlder(p) ==
    IF p.EntryType # fileType THEN FALSE
    ELSE IF Min2(p.MTime, p.CTime) >= p.epochTimeDesired THEN FALSE
    ELSE TRUE

\* The slip of judging a file by the later of its two times.
filterForOldFilesByLatest(p) ==
    IF p.EntryType # fileType THEN FALSE
    ELSE IF (IF p.MTime > p.CTime THEN p.MTime ELSE p.CTime) > p.epochTimeDesired
         THEN FALSE
    ELSE TRUE

filterForOldFiles(p) ==
    IF p.EntryType # fileType THEN FALSE
    ELSE IF Min2(p.MTime, p.CTime) > p.epochTimeDesired THEN FALSE
    ELSE TRUE

\* p.filter(): the function value stored in the Parser.
CallFilter(p) ==
    IF p.filter = "filterForOldFiles" THEN filterForOldFiles(p) ELSE noFilter(p)

\* p.FilterForFilesOlderThan(d), with CutoffEpoch for time.Now().Add(-d).Unix().
FilterForFilesOlderThan(p) ==
    [p EXCEPT !.filter = "filterForOldFiles", !.epochTimeDesired = CutoffEpoch]

RECURSIVE parseNextColumnFrom(_, _)
\* The loop of parseNextColumn from the column's first index.  res is "ok"
\* with the column, "false" with p.error set, or "panic" when lineBytes is
\* indexed at or beyond its length.
parseNextColumnFrom(p, start) ==
    IF p.lineIndex >= Len(p.lineBytes) THEN
        [p |-> p, col |-> <<>>, res |-> "panic"]
    ELSE IF p.lineBytes[p.lineIndex + 1] # TAB THEN
        LET q == [p EXCEPT !.lineIndex = @ + 1]
        IN  IF q.lineIndex >= q.lineLength THEN
                [p |-> [q EXCEPT !.error = ErrTooFewColumns],
                 col |-> <<>>, res |-> "false"]
            ELSE parseNextColumnFrom(q, start)
    ELSE
        [p |-> [p EXCEPT !.lineIndex = @ + 1],
         col |-> Slice(p.lineBytes, start, p.lineIndex), res |-> "ok"]

parseNextColumn(p) == parseNextColumnFrom(p, p.lineIndex)

RECURSIVE DigitValue(_, _)
\* The loop of parseNumberColumn: v = v*10 + c - '0' over the column's bytes.
\* The columns of the model stay far below the int64 range.
DigitValue(v, col) ==
    IF col = <<>> THEN v
    ELSE DigitValue(v * 10 + Head(col) - ZeroDigit, Tail(col))

\* parseNumberColumn(v), v naming the field to set or "nil".
parseNumberColumn(p, v) ==
    LET c == parseNextColumn(p)
    IN  IF c.res # "ok" THEN c
        ELSE IF v = "nil" THEN c
        ELSE [c EXCEPT !.p = [c.p EXCEPT ![v] = DigitValue(0, c.col)]]

Columns2to7 == <<"Size", "nil", "GID", "nil", "MTime", "CTime">>

RECURSIVE parseColumnsFrom(_, _)
parseColumnsFrom(p, k) ==
    IF k > Len(Columns2to7) THEN [p |-> p, col |-> <<>>, res |-> "ok"]
    ELSE LET c == parseNumberColumn(p, Columns2to7[k])
         IN  IF c.res # "ok" THEN c ELSE parseColumnsFrom(c.p, k + 1)

parseColumns2to7(p) == parseColumnsFrom(p, 1)

\* The slip of recording ErrBadPath and going on as if the path were decoded.
decodePathErrorNotFatal(p, encodedPath) ==
    LET d == Decode64(encodedPath)
        buf == d.out \o SubSeq(p.pathBuffer, Len(d.out) + 1, Len(p.pathBuffer))
    IN  IF d.err THEN
            [p |-> [p EXCEPT !.pathBuffer = buf, !.error = ErrBadPath,
                             !.PathLen = Len(d.out)],
             res |-> "true"]
        ELSE
            [p |-> [p EXCEPT !.pathBuffer = buf, !.PathLen = Len(d.out)], res |-> "true"]

\* decodePath: Decode writes into pathBuffer even when it then fails.
decodePath(p, encodedPath) ==
    LET d == Decode64(encodedPath)
        buf == d.out \o SubSeq(p.pathBuffer, Len(d.out) + 1, Len(p.pathBuffer))
    IN  IF d.err THEN
            [p |-> [p EXCEPT !.pathBuffer = buf, !.error = ErrBadPath], res |-> "false"]
        ELSE
            [p |-> [p EXCEPT !.pathBuffer = buf, !.PathLen = Len(d.out)], res |-> "true"]

RECURSIVE Scan(_), parseLine(_)

\* The slip of leaving a blank line with the scanner, to be read again.
ScanLeavesBlankLine(p) ==
    IF p.scanner.rest = <<>> THEN
        [p |-> [p EXCEPT !.scanner.err = IF @ # NoError \/ p.scanner.end = EOF
                                         THEN @ ELSE p.scanner.end],
         res |-> "false"]
    ELSE IF Len(Head(p.scanner.rest)) <= 1 THEN
        parseLine([p EXCEPT !.scanner.tok = Head(p.scanner.rest)])
    ELSE parseLine([p EXCEPT !.scanner.rest = Tail(@), !.scanner.tok = Head(p.scanner.rest)])

\* p.Scan(): the Parser afterwards and what the call did: "true", "false",
\* or "panic" (an index out of range).
Scan(p) ==
    IF p.scanner.rest = <<>> THEN
        [p |-> [p EXCEPT !.scanner.err = IF @ # NoError \/ p.scanner.end = EOF
                                         THEN @ ELSE p.scanner.end],
         res |-> "false"]
    ELSE parseLine([p EXCEPT !.scanner.rest = Tail(@), !.scanner.tok = Head(p.scanner.rest)])

\* The slip of decoding the path column before the filter is asked.
parseLineDecodeFirst(p0) ==
    LET p1 == [p0 EXCEPT !.lineBytes = p0.scanner.tok,
                         !.lineLength = Len(p0.scanner.tok)]
    IN  IF p1.lineLength <= 1 THEN [p |-> p1, res |-> "true"]
        ELSE
        LET c1 == parseNextColumn([p1 EXCEPT !.lineIndex = 0])
        IN  IF c1.res # "ok" THEN [p |-> c1.p, res |-> c1.res]
            ELSE
            LET c7 == parseColumns2to7(c1.p)
            IN  IF c7.res # "ok" THEN [p |-> c7.p, res |-> c7.res]
                ELSE
                LET c8 == parseNextColumn(c7.p)
                IN  IF c8.res # "ok" THEN [p |-> c8.p, res |-> c8.res]
                    ELSE IF c8.col = <<>> THEN [p |-> c8.p, res |-> "panic"]
                    ELSE
                    LET p2 == [c8.p EXCEPT !.EntryType = c8.col[1]]
                        d  == decodePath(p2, c1.col)
                    IN  IF d.res # "true" THEN d
                        ELSE IF ~CallFilter(d.p) THEN Scan(d.p)
                        ELSE d

\* The slip of taking only the empty line for a blank one.
parseLineOnlyEmptyIsBlank(p0) ==
    LET p1 == [p0 EXCEPT !.lineBytes = p0.scanner.tok,
                         !.lineLength = Len(p0.scanner.tok)]
    IN  IF p1.lineLength < 1 THEN [p |-> p1, res |-> "true"]
        ELSE
        LET c1 == parseNextColumn([p1 EXCEPT !.lineIndex = 0])
        IN  IF c1.res # "ok" THEN [p |-> c1.p, res |-> c1.res]
            ELSE
            LET c7 == parseColumns2to7(c1.p)
            IN  IF c7.res # "ok" THEN [p |-> c7.p, res |-> c7.res]
                ELSE
                LET c8 == parseNextColumn(c7.p)
                IN  IF c8.res # "ok" THEN [p |-> c8.p, res |-> c8.res]
                    ELSE IF c8.col = <<>> THEN [p |-> c8.p, res |-> "panic"]
                    ELSE
                    LET p2 == [c8.p EXCEPT !.EntryType = c8.col[1]]
                    IN  IF ~CallFilter(p2) THEN Scan(p2)
                        ELSE decodePath(p2, c1.col)

\* p.parseLine(), with the calls it makes.
parseLine(p0) ==
    LET p1 == [p0 EXCEPT !.lineBytes = p0.scanner.tok,
                         !.lineLength = Len(p0.scanner.tok)]
    IN  IF p1.lineLength <= 1 THEN [p |-> p1, res |-> "true"]
        ELSE
        LET c1 == parseNextColumn([p1 EXCEPT !.lineIndex = 0])
        IN  IF c1.res # "ok" THEN [p |-> c1.p, res |-> c1.res]
            ELSE
            LET c7 == parseColumns2to7(c1.p)
            IN  IF c7.res # "ok" THEN [p |-> c7.p, res |-> c7.res]
                ELSE
                LET c8 == parseNextColumn(c7.p)
                IN  IF c8.res # "ok" THEN [p |-> c8.p, res |-> c8.res]
                    ELSE IF c8.col = <<>> THEN [p |-> c8.p, res |-> "panic"]
                    ELSE
                    LET p2 == [c8.p EXCEPT !.EntryType = c8.col[1]]
                    IN  IF ~CallFilter(p2) THEN Scan(p2)
                        ELSE decodePath(p2, c1.col)

\* p.Err().
Err(p) == p.error

\* --------------------------------------------------------------- GIDToBoM

Space == 32

Comma == 44

PlusSign == 43

MinusSign == 45

numBomGIDsColumns == 2

\* Error("invalid bom.gids line: " + line), without the line.
ErrInvalidBomGidsLine == "invalid bom.gids line"

\* The *strconv.NumError of strconv.Atoi, without its operand.
ErrSyntax == "strconv.Atoi: invalid syntax"

\* unicode.IsSpace on a byte of ASCII.
IsSpace(b) == b \in {9, 10, 11, 12, 13, Space}

RECURSIVE TrimSpace(_)
\* strings.TrimSpace(s).
TrimSpace(s) ==
    IF s = <<>> THEN s
    ELSE IF IsSpace(s[1]) THEN TrimSpace(Tail(s))
    ELSE IF IsSpace(s[Len(s)]) THEN TrimSpace(SubSeq(s, 1, Len(s) - 1))
    ELSE s

RECURSIVE Split(_, _)
\* strings.Split(s, sep) for a separator of one byte.
Split(s, sep) ==
    IF \A i \in 1..Len(s) : s[i] # sep THEN <<s>>
    ELSE LET k == CHOOSE i \in 1..Len(s) :
                      s[i] = sep /\ \A j \in 1..(i - 1) : s[j] # sep
         IN  <<SubSeq(s, 1, k - 1)>> \o Split(SubSeq(s, k + 1, Len(s)), sep)

RECURSIVE AtoiDigits(_, _)
\* The digit loop of strconv.Atoi: the value of the digits after n, or a
\* syntax error at the first byte that is no digit.
AtoiDigits(s, n) ==
    IF s = <<>> THEN [n |-> n, err |-> NoError]
    ELSE IF s[1] < ZeroDigit \/ s[1] > ZeroDigit + 9 THEN [n |-> 0, err |-> ErrSyntax]
    ELSE AtoiDigits(Tail(s), n * 10 + (s[1] - ZeroDigit))

\* strconv.Atoi(s), for operands that fit an int.
Atoi(s) ==
    IF s = <<>> THEN [n |-> 0, err |-> ErrSyntax]
    ELSE LET signed == s[1] \in {PlusSign, MinusSign}
             digits == IF signed THEN Tail(s) ELSE s
             d == AtoiDigits(digits, 0)
         IN  IF digits = <<>> THEN [n |-> 0, err |-> ErrSyntax]
             ELSE IF d.err # NoError THEN d
             ELSE [n |-> IF s[1] = MinusSign THEN 0 - d.n ELSE d.n, err |-> NoError]

\* refomatBoM(rawBoM): the BoM without its spaces.
refomatBoM(rawBoM) == SelectSeq(rawBoM, LAMBDA b : b # Space)

RECURSIVE gidsOf(_, _)
\* The loop of gidsCSVtoGIDs over gidStrs from index i on.
gidsOf(gidStrs, i) ==
    IF i > Len(gidStrs) THEN [gids |-> <<>>, err |-> NoError]
    ELSE LET a == Atoi(gidStrs[i])
         IN  IF a.err # NoError THEN [gids |-> <<>>, err |-> a.err]
             ELSE LET rest == gidsOf(gidStrs, i + 1)
                  IN  IF rest.err # NoError THEN rest
                      ELSE [gids |-> <<a.n>> \o rest.gids, err |-> NoError]

\* The slip of leaving out the GIDs that are no numbers.
gidsCSVtoGIDsSkipInvalid(gidsCSV) ==
    LET gidStrs == SelectSeq(Split(gidsCSV, Comma), LAMBDA g : Atoi(g).err = NoError)
    IN  gidsOf(gidStrs, 1)

\* gidsCSVtoGIDs(gidsCSV).
gidsCSVtoGIDs(gidsCSV) == gidsOf(Split(gidsCSV, Comma), 1)

\* parseBomGIDsLine(line).
parseBomGIDsLine(line) ==
    LET cols == Split(line, TAB)
    IN  IF Len(cols) # numBomGIDsColumns THEN
            [bom |-> <<>>, gids |-> <<>>, err |-> ErrInvalidBomGidsLine]
        ELSE LET g == gidsCSVtoGIDs(cols[2])
             IN  [bom |-> refomatBoM(cols[1]), gids |-> g.gids, err |-> g.err]

RECURSIVE SetAll(_, _, _)
\* for _, gid := range gids { gidToBom[gid] = bom }.
SetAll(m, gids, bom) ==
    IF gids = <<>> THEN m
    ELSE SetAll([g \in DOMAIN m \cup {Head(gids)} |->
                    IF g = Head(gids) THEN bom ELSE m[g]], Tail(gids), bom)

\* The map[int]string with no key; a nil map reads as this one.
EmptyMap == [g \in {} |-> <<>>]

RECURSIVE parseBomGIDsLines(_, _, _)
\* The loop of parseBomGIDsData over the lines the scanner yields, and what
\* follows it.
parseBomGIDsLines(lines, end, m) ==
    IF lines = <<>> THEN
        IF end # EOF THEN [isNil |-> TRUE, gidToBom |-> EmptyMap, err |-> end]
        ELSE [isNil |-> FALSE, gidToBom |-> m, err |-> NoError]
    ELSE LET l == parseBomGIDsLine(TrimSpace(Head(lines)))
         IN  IF l.err # NoError THEN [isNil |-> TRUE, gidToBom |-> EmptyMap, err |-> l.err]
             ELSE parseBomGIDsLines(Tail(lines), end, SetAll(m, l.gids, l.bom))

\* parseBomGIDsData(r): the map, or nil and the error.
parseBomGIDsData(r) == parseBomGIDsLines(r.lines, r.end, EmptyMap)

\* The nil *GIDToBoM.
NilGIDToBoM == [isNil |-> TRUE, gidToBom |-> EmptyMap]

\* NewGIDToBoM(r): the *GIDToBoM, or nil and the error.
NewGIDToBoM(r) ==
    LET d == parseBomGIDsData(r)
    IN  IF d.err # NoError THEN [gp |-> NilGIDToBoM, err |-> d.err]
        ELSE [gp |-> [isNil |-> FALSE, gidToBom |-> d.gidToBom], err |-> NoError]

\* The labels "X" and "Y".
BomX == <<88>>

BomY == <<89>>

\* The table of a GIDToBoM that NewGIDToBoM has made of the bom.gids data:
\* two GIDs of BoM "X", one of BoM "Y".
gidToBom == (1 :> BomX) @@ (2 :> BomY) @@ (13 :> BomX)

\* The slip of giving an unknown GID a default label instead of an error.
GetBomDefaultLabel(gid) ==
    IF gid \notin DOMAIN gp.gidToBom THEN [bom |-> <<>>, err |-> NoError]
    ELSE [bom |-> gp.gidToBom[gid], err |-> NoError]

\* gp.GetBom(gid).
GetBom(gid) ==
    IF gid \notin DOMAIN gp.gidToBom THEN [bom |-> <<>>, err |-> ErrInvalidGID]
    ELSE [bom |-> gp.gidToBom[gid], err |-> NoError]

\* ------------------------------------------------------ BoMDirectoryStats

\* &Stats{BoM: bom, Directory: dir}.
NewStats(bom, dir) ==
    [BoM |-> bom, Directory |-> dir, Count |-> 0, Size |-> 0, children |-> <<>>]

RECURSIVE BinarySearchLoop(_, _, _, _, _)
\* The loop of slices.BinarySearchFunc over the children x of a node, comparing
\* Directory strings: the smallest index in i..j at which the target does not
\* sort after the child (0-based).
BinarySearchLoop(h, x, target, i, j) ==
    IF i >= j THEN i
    ELSE LET m == (i + j) \div 2
         IN  IF StrCompare(h[x[m + 1]].Directory, target) < 0
             THEN BinarySearchLoop(h, x, target, m + 1, j)
             ELSE BinarySearchLoop(h, x, target, i, m)

\* The slip of never finding the child that is already there.
BinarySearchFuncNeverFound(h, x, target) ==
    [i |-> BinarySearchLoop(h, x, target, 0, Len(x)), exists |-> FALSE]

\* slices.BinarySearchFunc(children, newChild, by Directory).
BinarySearchFunc(h, x, target) ==
    LET i == BinarySearchLoop(h, x, target, 0, Len(x))
    IN  [i |-> i,
         exists |-> i < Len(x) /\ StrCompare(h[x[i + 1]].Directory, target) = 0]

\* The slip of appending the new child instead of inserting it at its index.
InsertAtEnd(x, i, v) == Append(x, v)

\* slices.Insert(x, i, v).
Insert(x, i, v) == SubSeq(x, 1, i) \o <<v>> \o SubSeq(x, i + 1, Len(x))

\* The slip of setting the size of an entry to that of the record.
AddRecordOverwrite(h, stats, size) ==
    [h EXCEPT ![stats].Count = @ + 1, ![stats].Size = size]

\* The slip of counting a record without adding its size.
AddRecordCountOnly(h, stats, size) == [h EXCEPT ![stats].Count = @ + 1]

\* stats.Count++; stats.Size += sp.Size.
AddRecord(h, stats, size) ==
    [h EXCEPT ![stats].Count = @ + 1, ![stats].Size = @ + size]

RECURSIVE WalkPath(_, _, _, _, _, _)
\* The loop of accumulateDirStats from byte i of fullPath on; a is the heap
\* and the results so far, stats the node of the directory above.
WalkPath(fullPath, i, size, bom, a, stats) ==
    IF i >= Len(fullPath) THEN a
    ELSE IF i = 0 \/ fullPath[i + 1] # Slash THEN
        WalkPath(fullPath, i + 1, size, bom, a, stats)
    ELSE
        LET thisDir == Slice(fullPath, 0, i)
            found == BinarySearchFunc(a.heap, a.heap[stats].children, thisDir)
            new == Len(a.heap) + 1
            b == IF found.exists THEN a
                 ELSE [heap |-> Append([a.heap EXCEPT ![stats].children =
                                            Insert(@, found.i, new)],
                                       NewStats(bom, thisDir)),
                       results |-> Append(a.results, new)]
            next == IF found.exists THEN a.heap[stats].children[found.i + 1]
                    ELSE new
        IN  WalkPath(fullPath, i + 1, size, bom,
                     [b EXCEPT !.heap = AddRecord(@, next, size)], next)

\* The slip of not appending a BoM's new root to the results.
accumulateDirStatsRootNotListed(fullPath, size, bom, h, m, r) ==
    LET ok == bom \in DOMAIN m
        new == Len(h) + 1
        stats == IF ok THEN m[bom] ELSE new
        h1 == IF ok THEN h ELSE Append(h, NewStats(bom, <<Slash>>))
        m1 == IF ok THEN m ELSE m @@ (bom :> new)
        a == WalkPath(fullPath, 0, size, bom,
                      [heap |-> AddRecord(h1, stats, size), results |-> r], stats)
    IN  [heap |-> a.heap, bomToStats |-> m1, results |-> a.results]

\* The slip of not accumulating the record on the root.
accumulateDirStatsRootNotCounted(fullPath, size, bom, h, m, r) ==
    LET ok == bom \in DOMAIN m
        new == Len(h) + 1
        stats == IF ok THEN m[bom] ELSE new
        h1 == IF ok THEN h ELSE Append(h, NewStats(bom, <<Slash>>))
        m1 == IF ok THEN m ELSE m @@ (bom :> new)
        r1 == IF ok THEN r ELSE Append(r, new)
        a == WalkPath(fullPath, 0, size, bom, [heap |-> h1, results |-> r1], stats)
    IN  [heap |-> a.heap, bomToStats |-> m1, results |-> a.results]

\* The slip of one root for the records of every BoM.
accumulateDirStatsOneRoot(fullPath, size, bom, h, m, r) ==
    LET ok == DOMAIN m # {}
        new == Len(h) + 1
        stats == IF ok THEN m[CHOOSE b \in DOMAIN m : TRUE] ELSE new
        h1 == IF ok THEN h ELSE Append(h, NewStats(bom, <<Slash>>))
        m1 == IF ok THEN m ELSE m @@ (bom :> new)
        r1 == IF ok THEN r ELSE Append(r, new)
        a == WalkPath(fullPath, 0, size, bom,
                      [heap |-> AddRecord(h1, stats, size), results |-> r1], stats)
    IN  [heap |-> a.heap, bomToStats |-> m1, results |-> a.results]

\* accumulateDirStats(fullPath, sp, bom, bomToStats, results): the heap, the
\* map and the results afterwards.
accumulateDirStats(fullPath, size, bom, h, m, r) ==
    LET ok == bom \in DOMAIN m
        new == Len(h) + 1
        stats == IF ok THEN m[bom] ELSE new
        h1 == IF ok THEN h ELSE Append(h, NewStats(bom, <<Slash>>))
        m1 == IF ok THEN m ELSE m @@ (bom :> new)
        r1 == IF ok THEN r ELSE Append(r, new)
        a == WalkPath(fullPath, 0, size, bom,
                      [heap |-> AddRecord(h1, stats, size), results |-> r1], stats)
    IN  [heap |-> a.heap, bomToStats |-> m1, results |-> a.results]

\* The slip of putting, among equal Sizes, the Directory with more separators
\* first.
SortCompareDeepestFirst(a, b) ==
    IF IntCompare(b.Size, a.Size) # 0 THEN IntCompare(b.Size, a.Size)
    ELSE IF IntCompare(CountSlash(b.Directory), CountSlash(a.Directory)) # 0
         THEN IntCompare(CountSlash(b.Directory), CountSlash(a.Directory))
    ELSE StrCompare(a.Directory, b.Directory)

\* The comparison without its last tie-break on the Directory.
SortCompareNoName(a, b) ==
    IF IntCompare(b.Size, a.Size) # 0 THEN IntCompare(b.Size, a.Size)
    ELSE IntCompare(CountSlash(a.Directory), CountSlash(b.Directory))

\* The comparison function of sortBoMDirectoryStats.
SortCompare(a, b) ==
    IF IntCompare(b.Size, a.Size) # 0 THEN IntCompare(b.Size, a.Size)
    ELSE IF IntCompare(CountSlash(a.Directory), CountSlash(b.Directory)) # 0
         THEN IntCompare(CountSlash(a.Directory), CountSlash(b.Directory))
    ELSE StrCompare(a.Directory, b.Directory)

RECURSIVE SortedOrders(_, _, _)
\* What slices.SortFunc may leave in r: every order of the positions I of r in
\* which no element compares after a later one.  The sort is not stable, so
\* elements that compare equal may come out in either order.
SortedOrders(h, r, I) ==
    IF I = {} THEN {<<>>}
    ELSE LET first == {i \in I : \A j \in I : SortCompare(h[r[i]], h[r[j]]) <= 0}
         IN  UNION {{<<r[i]>> \o t : t \in SortedOrders(h, r, I \ {i})} : i \in first}

\* sortBoMDirectoryStats(results): the possible returned slices.
sortBoMDirectoryStats(h, r) == SortedOrders(h, r, 1..Len(r))

\* The Stats that the *Stats of a slice point to, in the order of the slice.
StatsList(h, r) ==
    [i \in 1..Len(r) |-> [BoM |-> h[r[i]].BoM, Directory |-> h[r[i]].Directory,
                          Count |-> h[r[i]].Count, Size |-> h[r[i]].Size]]

\* The slip of an order that an equal slice does not get again, as that of
\* ranging over a map is.
sortBoMDirectoryStatsAgainUnrepeatable(h, r, before) == sortBoMDirectoryStats(h, r)

\* sortBoMDirectoryStats(results) in a process in which an earlier call may
\* have returned: slices.SortFunc is a function of the values it compares,
\* so on a slice of the Stats that it sorted before it leaves the order that
\* it left then.
sortBoMDirectoryStatsAgain(h, r, before) ==
    IF before.done /\ StatsList(h, r) = before.unsorted
    THEN {o \in sortBoMDirectoryStats(h, r) : StatsList(h, o) = before.ret}
    ELSE sortBoMDirectoryStats(h, r)

\* ------------------------------------------------------------------ input

\* "/f", "/a/f" and "/b/c/f": a file in the root, in a directory, and in a
\* directory of a sibling directory.
PathF == <<47, 102>>

PathAF == <<47, 97, 47, 102>>

PathBCF == <<47, 98, 47, 99, 47, 102>>

Paths == {PathF, PathAF, PathBCF}

\* Times around the cutoff: older, exactly at it, and more recent.
Times == {CutoffEpoch - 1, CutoffEpoch, CutoffEpoch + 1}

\* A GID that is in no line of the bom.gids data.
UnmappedGID == CHOOSE g \in 1..20 : g \notin DOMAIN gidToBom

RecordFields(paths, sizes, gids, mtimes, ctimes, etypes) ==
    [kind : {"rec"}, path : paths, size : sizes, gid : gids, mtime : mtimes,
     ctime : ctimes, etype : etypes, raw : {<<>>}]

\* Old regular files: every path at every size for a GID of BoM "X", every
\* path for a GID of BoM "Y", one file of the second GID of "X" and one of an
\* unmapped GID.
OldFileRecords ==
    RecordFields(Paths, 1..MaxSize, {1}, {CutoffEpoch - 1}, {CutoffEpoch - 1},
                 {fileType})
    \cup RecordFields(Paths, {1}, {2}, {CutoffEpoch - 1}, {CutoffEpoch - 1},
                      {fileType})
    \cup RecordFields({PathAF}, {1}, {13, UnmappedGID}, {CutoffEpoch - 1},
                      {CutoffEpoch - 1}, {fileType})

\* One regular file at every combination of times, a directory at every time,
\* and entries of an unmapped GID that are no old files.
FilterRecords ==
    RecordFields({PathAF}, {1}, {1}, Times, Times, {fileType})
    \cup {r \in RecordFields({PathAF}, {1}, {1}, Times, Times, {dirType}) :
            r.mtime = r.ctime}
    \cup RecordFields({PathAF}, {1}, {UnmappedGID}, {CutoffEpoch - 1},
                      {CutoffEpoch - 1}, {dirType})
    \cup RecordFields({PathAF}, {1}, {UnmappedGID}, {CutoffEpoch + 1},
                      {CutoffEpoch + 1}, {fileType})

\* The columns of a stats line after the path: size, uid, gid, atime, mtime,
\* ctime, entry type, and one further (ignored) column.
RecordTail(r) ==
    <<TAB>> \o Digits(r.size) \o <<TAB>> \o Digits(0) \o <<TAB>> \o Digits(r.gid)
    \o <<TAB>> \o Digits(0) \o <<TAB>> \o Digits(r.mtime) \o <<TAB>>
    \o Digits(r.ctime) \o <<TAB, r.etype, TAB>> \o Digits(1)

\* The line wrstat writes for a record.
RecordLine(r) == Encode64(r.path) \o RecordTail(r)

RawItem(bytes) ==
    [kind |-> "raw", path |-> <<>>, size |-> 0, gid |-> 0, mtime |-> 0,
     ctime |-> 0, etype |-> 0, raw |-> bytes]

AnOldFile ==
    [kind |-> "rec", path |-> PathAF, size |-> 1, gid |-> 1,
     mtime |-> CutoffEpoch - 1, ctime |-> CutoffEpoch - 1, etype |-> fileType,
     raw |-> <<>>]

\* A blank line.
BlankLine == <<>>

\* A line that stops in its third column.
ShortLine == Encode64(PathAF) \o <<TAB>> \o Digits(1) \o <<TAB>> \o Digits(1)

\* An old file's line whose path column is "?", which is no base64.
BadPathLine == <<63>> \o RecordTail(AnOldFile)

RawLines == {BlankLine, ShortLine, BadPathLine}

Items == OldFileRecords \cup FilterRecords \cup {RawItem(l) : l \in RawLines}

\* A record's line that ends with its entry type, the eighth column: the
\* line without the tab and the one byte of its further column.
EightColumnLine(r) ==
    Encode64(r.path) \o SubSeq(RecordTail(r), 1, Len(RecordTail(r)) - Len(<<TAB>> \o Digits(1)))

\* The bytes of a line of the input.
LineOf(item) ==
    IF item.kind = "raw" THEN item.raw
    ELSE IF item.kind = "rec8" THEN EightColumnLine(item)
    ELSE IF item.kind = "rawpath" THEN item.raw \o RecordTail(item)
    ELSE RecordLine(item)

Inputs == UNION {[1..n -> Items] : n \in 0..MaxLines}

\* ---------------------------------------------------------------- actions

\* The bom.gids data "X\t1,13" and "Y\t2".
BomGidsData ==
    << BomX \o <<TAB>> \o Digits(1) \o <<Comma>> \o Digits(13),
       BomY \o <<TAB>> \o Digits(2) >>

\* The caller made its GIDToBoM of the bom.gids data before anything else.
GIDToBoMBuilt ==
    /\ bomGids = [lines |-> BomGidsData, end |-> EOF]
    /\ gp = NewGIDToBoM(bomGids).gp
    /\ gpErr = NewGIDToBoM(bomGids).err
    /\ lookup = <<>>

Init ==
    /\ GIDToBoMBuilt
    /\ input \in Inputs
    /\ sp = New([lines |-> [i \in 1..Len(input) |-> LineOf(input[i])], end |-> EOF])
    /\ heap = <<>>
    /\ bomToStats = [b \in {} |-> 0]
    /\ results = <<>>
    /\ pc = "start"
    /\ ret = <<>>
    /\ err = NoError
    /\ firstCall = NoFirstRun
    /\ bomToDirToStats = <<>>

\* BoMDirectoryStats: sp.FilterForFilesOlderThan(d).
CallFilterForFilesOlderThan ==
    /\ pc = "start"
    /\ sp' = FilterForFilesOlderThan(sp)
    /\ pc' = "scan"
    /\ UNCHANGED <<input, heap, bomToStats, results, ret, err, gidVars, firstCall, bomToDirToStats>>

\* getBoMDirectoryStats: the loop condition sp.Scan().
CallScan ==
    /\ pc = "scan"
    /\ LET r == Scan(sp)
       IN  /\ sp' = r.p
           /\ pc' = IF r.res = "true" THEN "body"
                    ELSE IF r.res = "false" THEN "eof"
                    ELSE "panic"
    /\ UNCHANGED <<input, heap, bomToStats, results, ret, err, gidVars, firstCall, bomToDirToStats>>

\* getBoMDirectoryStats: the loop body; BoMDirectoryStats returns nil and the
\* error when the lookup fails.
LoopBody ==
    /\ pc = "body"
    /\ LET b == GetBom(sp.GID)
       IN  IF b.err # NoError THEN
               /\ ret' = <<>>
               /\ err' = b.err
               /\ pc' = "done"
               /\ UNCHANGED <<heap, bomToStats, results>>
           ELSE
               LET a == accumulateDirStats(Path(sp), sp.Size, b.bom,
                                           heap, bomToStats, results)
               IN  /\ heap' = a.heap
                   /\ bomToStats' = a.bomToStats
                   /\ results' = a.results
                   /\ pc' = "scan"
                   /\ UNCHANGED <<ret, err>>
    /\ UNCHANGED <<input, sp, gidVars, firstCall, bomToDirToStats>>

\* getBoMDirectoryStats returns results and nil once Scan returned false;
\* BoMDirectoryStats sorts them and returns them.
SortAndReturn ==
    /\ pc = "eof"
    /\ ret' \in sortBoMDirectoryStatsAgain(heap, results, firstCall)
    /\ err' = NoError
    /\ pc' = "done"
    /\ UNCHANGED <<input, sp, heap, bomToStats, results, gidVars, firstCall, bomToDirToStats>>

Next == CallFilterForFilesOlderThan \/ CallScan \/ LoopBody \/ SortAndReturn

Spec == Init /\ [][Next]_vars

\* ------------------------------------------- BoMDirectoryStats as a whole

RECURSIVE getBoMDirectoryStatsLoop(_, _, _, _)
\* The loop of getBoMDirectoryStats from the Parser p, the Stats h, the map m
\* and the results r on: the Stats and the results at its return, and the
\* error returned ("panic" when Scan panicked).
getBoMDirectoryStatsLoop(p, h, m, r) ==
    LET s == Scan(p)
    IN  IF s.res = "panic" THEN [heap |-> h, results |-> <<>>, err |-> "panic"]
        ELSE IF s.res = "false" THEN [heap |-> h, results |-> r, err |-> NoError]
        ELSE LET b == GetBom(s.p.GID)
             IN  IF b.err # NoError THEN [heap |-> h, results |-> <<>>, err |-> b.err]
                 ELSE LET a == accumulateDirStats(Path(s.p), s.p.Size, b.bom, h, m, r)
                      IN  getBoMDirectoryStatsLoop(s.p, a.heap, a.bomToStats, a.results)

\* The fields of the Stats a slice of *Stats points to.
StatsOf(h, r) ==
    {[BoM |-> h[r[i]].BoM, Directory |-> h[r[i]].Directory,
      Count |-> h[r[i]].Count, Size |-> h[r[i]].Size] : i \in 1..Len(r)}

\* BoMDirectoryStats(New(r), gp, d) on a reader of the given lines: the Stats
\* returned, in whichever order the sort leaves them, and the error.
BoMDirectoryStats(lines) ==
    LET d == getBoMDirectoryStatsLoop(
                 FilterForFilesOlderThan(New([lines |-> lines, end |-> EOF])),
                 <<>>, [b \in {} |-> 0], <<>>)
    IN  [stats |-> StatsOf(d.heap, d.results), err |-> d.err]

\* The records of the stats lines.
Records == OldFileRecords \cup FilterRecords

\* An input of two records' lines with a blank line between them.
BlankLineInit ==
    /\ GIDToBoMBuilt
    /\ \E a \in Records, b \in Records : input = <<a, RawItem(BlankLine), b>>
    /\ sp = New([lines |-> [i \in 1..Len(input) |-> LineOf(input[i])], end |-> EOF])
    /\ heap = <<>>
    /\ bomToStats = [b \in {} |-> 0]
    /\ results = <<>>
    /\ pc = "start"
    /\ ret = <<>>
    /\ err = NoError
    /\ firstCall = NoFirstRun
    /\ bomToDirToStats = <<>>

BlankLineSpec == BlankLineInit /\ [][Next]_vars

\* ------------------------------------------- BoMDirectoryStats called twice

\* Inputs of old files' lines, blank lines and lines that stop short.
TwiceInputs ==
    UNION {[1..n -> OldFileRecords \cup {RawItem(BlankLine), RawItem(ShortLine)}] :
              n \in 0..MaxLines}

TwiceInit ==
    /\ GIDToBoMBuilt
    /\ input \in TwiceInputs
    /\ sp = New([lines |-> [i \in 1..Len(input) |-> LineOf(input[i])], end |-> EOF])
    /\ heap = <<>>
    /\ bomToStats = [b \in {} |-> 0]
    /\ results = <<>>
    /\ pc = "start"
    /\ ret = <<>>
    /\ err = NoError
    /\ firstCall = NoFirstRun
    /\ bomToDirToStats = <<>>

\* The caller notes what BoMDirectoryStats returned, makes a new Parser of the
\* same lines and calls BoMDirectoryStats with it, the same GIDToBoM and
\* the same age.
CallBoMDirectoryStatsAgain ==
    /\ pc = "done"
    /\ ~firstCall.done
    /\ firstCall' = [done |-> TRUE, unsorted |-> StatsList(heap, results),
                     ret |-> StatsList(heap, ret), err |-> err]
    /\ sp' = New([lines |-> [i \in 1..Len(input) |-> LineOf(input[i])], end |-> EOF])
    /\ heap' = <<>>
    /\ bomToStats' = [b \in {} |-> 0]
    /\ results' = <<>>
    /\ ret' = <<>>
    /\ err' = NoError
    /\ pc' = "start"
    /\ UNCHANGED <<input, gidVars, bomToDirToStats>>

TwiceNext == Next \/ CallBoMDirectoryStatsAgain

TwiceSpec == TwiceInit /\ [][TwiceNext]_vars

\* ------------------------------------- the aggregator with one flat map

\* newBomDirKey(bom, thisDir) for thisDir = fullPath[0:dirLen]: the directory
\* of the key is unsafe.String(&thisDir[0], dirLen), a string over the first
\* dirLen bytes of the pathBuffer of the Parser, of which no copy is made.
newBomDirKey(bom, dirLen) == [bom |-> bom, dirLen |-> dirLen]

\* The directory of a key as a read of it gives it: the bytes that the
\* pathBuffer holds now.
KeyDirectory(buf, key) == SubSeq(buf, 1, key.dirLen)

\* bomToDirToStats[key]: the entries that the access can find, 0 standing for
\* none.  The map is a sequence of entries, each with its key, the bytes of
\* the directory under whose hash it was filed, and its *Stats.  The runtime
\* takes an entry for the key when the bits of the hashes that it compares
\* agree and the keys, read now, are equal.  Those bits agree for an entry
\* filed under the same bytes; for one filed under other bytes they agree or
\* not, by the seed of the hash.  Up to the 8 entries of one bucket, which
\* the inputs stay below, the map files no entry anew.
MapAccess(m, buf, key) ==
    LET equal == {i \in 1..Len(m) :
                     /\ m[i].key.bom = key.bom
                     /\ KeyDirectory(buf, m[i].key) = KeyDirectory(buf, key)}
        same == {i \in equal : m[i].filed = KeyDirectory(buf, key)}
    IN  equal \cup (IF same = {} THEN {0} ELSE {})

RECURSIVE WalkPathFlat(_, _, _, _, _, _)
\* The loop of accumulateDirStats from byte i of fullPath on: the heaps and
\* maps that it can end with.
WalkPathFlat(fullPath, i, size, bom, buf, a) ==
    IF i >= Len(fullPath) THEN {a}
    ELSE IF fullPath[i + 1] # Slash THEN
        WalkPathFlat(fullPath, i + 1, size, bom, buf, a)
    ELSE
        LET thisDir == Slice(fullPath, 0, i + 1)
            key == newBomDirKey(bom, Len(thisDir))
            new == Len(a.heap) + 1
            after(found) ==
                IF found = 0 THEN
                    [heap |-> AddRecord(
                                  Append(a.heap,
                                         NewStats(bom, Slice(thisDir, 0, Len(thisDir) - 1))),
                                  new, size),
                     m |-> Append(a.m, [key |-> key, filed |-> thisDir, stats |-> new])]
                ELSE [a EXCEPT !.heap = AddRecord(@, a.m[found].stats, size)]
        IN  UNION {WalkPathFlat(fullPath, i + 1, size, bom, buf, after(found)) :
                      found \in MapAccess(a.m, buf, key)}

\* accumulateDirStats(fullPath, sp, bom, bomToDirToStats) of the flat map.
accumulateDirStatsFlat(fullPath, size, bom, buf, h, m) ==
    WalkPathFlat(fullPath, 0, size, bom, buf, [heap |-> h, m |-> m])

\* sortBoMDirectoryStats(bds) of the flat map: the *Stats in the order that
\* ranging over the map gives, which is any, sorted by the same comparison.
sortBoMDirectoryStatsFlat(h, m) ==
    sortBoMDirectoryStats(h, [i \in 1..Len(m) |-> m[i].stats])

PathBF == <<47, 98, 47, 102>>

\* Old regular files of BoM "X" and of BoM "Y", among them two in different
\* directories whose names are equally long.
FlatRecords ==
    RecordFields({PathF, PathAF, PathBF, PathBCF}, {1}, {1, 2}, {CutoffEpoch - 1},
                 {CutoffEpoch - 1}, {fileType})
    \cup RecordFields({PathAF}, {1}, {UnmappedGID}, {CutoffEpoch - 1},
                      {CutoffEpoch - 1}, {fileType})

FlatInputs == UNION {[1..n -> FlatRecords] : n \in 0..MaxLines}

FlatInit ==
    /\ GIDToBoMBuilt
    /\ input \in FlatInputs
    /\ sp = New([lines |-> [i \in 1..Len(input) |-> LineOf(input[i])], end |-> EOF])
    /\ heap = <<>>
    /\ bomToStats = [b \in {} |-> 0]
    /\ results = <<>>
    /\ pc = "start"
    /\ ret = <<>>
    /\ err = NoError
    /\ firstCall = NoFirstRun
    /\ bomToDirToStats = <<>>

\* getBoMDirectoryStats of the flat map: the loop body.
FlatLoopBody ==
    /\ pc = "body"
    /\ LET b == GetBom(sp.GID)
       IN  IF b.err # NoError THEN
               /\ ret' = <<>>
               /\ err' = b.err
               /\ pc' = "done"
               /\ UNCHANGED <<heap, bomToDirToStats>>
           ELSE
               \E a \in accumulateDirStatsFlat(Path(sp), sp.Size, b.bom,
                                               sp.pathBuffer, heap, bomToDirToStats) :
                   /\ heap' = a.heap
                   /\ bomToDirToStats' = a.m
                   /\ pc' = "scan"
                   /\ UNCHANGED <<ret, err>>
    /\ UNCHANGED <<input, sp, bomToStats, results, gidVars, firstCall>>

\* getBoMDirectoryStats of the flat map returns the map and sp.Err() once Scan
\* returned false; BoMDirectoryStats returns the error or the sorted Stats.
FlatSortAndReturn ==
    /\ pc = "eof"
    /\ IF Err(sp) # NoError
       THEN ret' = <<>> /\ err' = Err(sp)
       ELSE ret' \in sortBoMDirectoryStatsFlat(heap, bomToDirToStats) /\ err' = NoError
    /\ pc' = "done"
    /\ UNCHANGED <<input, sp, heap, bomToStats, results, gidVars, firstCall, bomToDirToStats>>

FlatNext == CallFilterForFilesOlderThan \/ CallScan \/ FlatLoopBody \/ FlatSortAndReturn

FlatSpec == FlatInit /\ [][FlatNext]_vars

\* ------------------------------------------------- the Parser on its own

\* A second old file; a file both of whose times are after the cutoff; an old
\* directory.  No two of the records share a column.
AnotherOldFile ==
    [kind |-> "rec", path |-> PathBCF, size |-> 2, gid |-> 2,
     mtime |-> CutoffEpoch, ctime |-> CutoffEpoch + 1, etype |-> fileType,
     raw |-> <<>>]

ARecentFile ==
    [kind |-> "rec", path |-> PathF, size |-> 3, gid |-> 13,
     mtime |-> CutoffEpoch + 1, ctime |-> CutoffEpoch + 2, etype |-> fileType,
     raw |-> <<>>]

ADirectory ==
    [kind |-> "rec", path |-> <<Slash, 98>>, size |-> 4, gid |-> UnmappedGID,
     mtime |-> CutoffEpoch - 2, ctime |-> CutoffEpoch - 3, etype |-> dirType,
     raw |-> <<>>]

\* The line of the old directory with "?" for its path column, which is no
\* base64.
ABadPathDirectory == [ADirectory EXCEPT !.kind = "rawpath", !.raw = <<63>>]

\* An old file whose line ends with its entry type.
AnEightColumnFile == [AnOldFile EXCEPT !.kind = "rec8"]

\* A line of one byte.
OneByteLine == <<fileType>>

\* A line that ends with the tab after its second column.
ShortLineEndingInTab == Encode64(PathAF) \o <<TAB>> \o Digits(1) \o <<TAB>>

\* An old file's line that ends with the tab after its seventh column.
SevenColumnsEndingInTab ==
    SubSeq(EightColumnLine(AnOldFile), 1, Len(EightColumnLine(AnOldFile)) - 1)

\* An old file's line whose path column is "?" and that ends with its entry
\* type.
BadPathEightColumns == <<63>> \o SubSeq(EightColumnLine(AnOldFile),
                                        Len(Encode64(AnOldFile.path)) + 1,
                                        Len(EightColumnLine(AnOldFile)))

ParserRawLines ==
    {BlankLine, OneByteLine, ShortLine, ShortLineEndingInTab,
     SevenColumnsEndingInTab, BadPathLine, BadPathEightColumns}

ParserItems ==
    {AnOldFile, AnotherOldFile, ARecentFile, ADirectory, AnEightColumnFile,
     ABadPathDirectory}
    \cup {RawItem(l) : l \in ParserRawLines}

ParserInputs == UNION {[1..n -> ParserItems] : n \in 0..MaxLines}

\* What follows the last line of the reader.
Endings == {EOF, ErrTooLong}

\* p := New(r), as a test of the Parser makes it.
ParserInit ==
    /\ GIDToBoMBuilt
    /\ input \in ParserInputs
    /\ \E end \in Endings :
          sp = New([lines |-> [i \in 1..Len(input) |-> LineOf(input[i])], end |-> end])
    /\ heap = <<>>
    /\ bomToStats = [b \in {} |-> 0]
    /\ results = <<>>
    /\ pc = "start"
    /\ ret = <<>>
    /\ err = NoError
    /\ firstCall = NoFirstRun
    /\ bomToDirToStats = <<>>

\* The caller sets no filter: New left noFilter in place.
KeepNoFilter ==
    /\ pc = "start"
    /\ pc' = "scan"
    /\ UNCHANGED <<input, sp, heap, bomToStats, results, ret, err, gidVars, firstCall, bomToDirToStats>>

\* The body of the caller's loop for p.Scan() { ... }, which only reads the
\* Parser.
ScanLoopBody ==
    /\ pc = "body"
    /\ pc' = "scan"
    /\ UNCHANGED <<input, sp, heap, bomToStats, results, ret, err, gidVars, firstCall, bomToDirToStats>>

ParserNext == CallFilterForFilesOlderThan \/ KeepNoFilter \/ CallScan \/ ScanLoopBody

ParserSpec == ParserInit /\ [][ParserNext]_vars

\* The caller moves on from where it is: before the loop, at the call of Scan
\* in the loop condition, and in the body.
CallerMovesOn ==
    /\ pc \in {"start", "scan", "body"}
    /\ pc' \in {"scan", "body", "eof", "panic"} \ {pc}

\* The caller's loop for p.Scan() { ... } runs on: the one goroutine that runs
\* it does not stop before the loop, at a call of Scan or in the body.
ParserLiveSpec == ParserInit /\ [][ParserNext]_vars /\ WF_pc(CallerMovesOn)

\* ------------------------------------------------ the GIDToBoM on its own

\* " H G\t1 ": a label with spaces, a GID of the first line of BomGidsData,
\* and spaces around the line.
SpacedLine == <<Space, 72, Space, 71, TAB>> \o Digits(1) \o <<Space>>

\* "Y\t+4": a GID with a sign.
SignedGIDLine == BomY \o <<TAB, PlusSign>> \o Digits(4)

\* "bom\tgid": a GID that is no number.
NoNumberLine == <<98, 111, 109, TAB, 103, 105, 100>>

\* "bom\t123\t456": three columns.
ThreeColumnLine == <<98, 111, 109, TAB>> \o Digits(123) \o <<TAB>> \o Digits(456)

\* "bom": one column.
OneColumnLine == <<98, 111, 109>>

\* "X\t": nothing after the tab.
NoGIDsLine == BomX \o <<TAB>>

\* "Y\t1,,2": an empty GID.
EmptyGIDLine == BomY \o <<TAB>> \o Digits(1) \o <<Comma, Comma>> \o Digits(2)

\* "Y\t1, 2": a space before a GID.
SpaceInGIDsLine == BomY \o <<TAB>> \o Digits(1) \o <<Comma, Space>> \o Digits(2)

BomGidsLines ==
    {BomGidsData[i] : i \in 1..Len(BomGidsData)}
    \cup {SpacedLine, SignedGIDLine, NoNumberLine, ThreeColumnLine, OneColumnLine,
          NoGIDsLine, EmptyGIDLine, SpaceInGIDsLine, BlankLine}

\* The readers of bom.gids data: up to MaxLines lines and what follows them.
BomGidsReaders ==
    [lines : UNION {[1..n -> BomGidsLines] : n \in 0..MaxLines}, end : Endings]

\* The GIDs that the caller looks up.
LookupGIDs == DOMAIN gidToBom \cup {UnmappedGID, 0, 4}

\* Before NewGIDToBoM(r) is called; there is no stats file.
GIDInit ==
    /\ bomGids \in BomGidsReaders
    /\ gp = NilGIDToBoM
    /\ gpErr = NoError
    /\ lookup = <<>>
    /\ input = <<>>
    /\ sp = New([lines |-> <<>>, end |-> EOF])
    /\ heap = <<>>
    /\ bomToStats = [b \in {} |-> 0]
    /\ results = <<>>
    /\ pc = "new"
    /\ ret = <<>>
    /\ err = NoError
    /\ firstCall = NoFirstRun
    /\ bomToDirToStats = <<>>

\* gp, err := NewGIDToBoM(r).
CallNewGIDToBoM ==
    /\ pc = "new"
    /\ gp' = NewGIDToBoM(bomGids).gp
    /\ gpErr' = NewGIDToBoM(bomGids).err
    /\ pc' = "loaded"
    /\ UNCHANGED <<input, sp, heap, bomToStats, results, ret, err, bomGids, lookup,
                 firstCall, bomToDirToStats>>

\* bom, err := gp.GetBom(gid), on the GIDToBoM that NewGIDToBoM returned
\* without error.
CallGetBom ==
    /\ pc = "loaded"
    /\ gpErr = NoError
    /\ \E gid \in LookupGIDs :
          lookup' = <<[gid |-> gid, bom |-> GetBom(gid).bom, err |-> GetBom(gid).err]>>
    /\ UNCHANGED <<input, sp, heap, bomToStats, results, pc, ret, err, bomGids, gp, gpErr,
                 firstCall, bomToDirToStats>>

GIDNext == CallNewGIDToBoM \/ CallGetBom

GIDSpec == GIDInit /\ [][GIDNext]_vars

\* ----------------------------------------------------------------- claims

\* The number of input lines the scanner has handed to the Parser.
Consumed == Len(input) - Len(sp.scanner.rest)

\* The earlier of two times.
Earlier(a, b) == IF a <= b THEN a ELSE b

\* A line written from a record that is a regular file whose earlier time is
\* not after the cutoff: what the age filter is to accept.
Passes(item) ==
    /\ item.kind = "rec"
    /\ item.etype = fileType
    /\ Earlier(item.mtime, item.ctime) <= CutoffEpoch

\* No line handed out so far is blank (of length 0 or 1).
NoBlankConsumed == \A i \in 1..Consumed : Len(LineOf(input[i])) > 1

\* Between two iterations of the loop, or after a return without error.
AtLoopBoundary == pc \in {"scan", "eof"} \/ (pc = "done" /\ err = NoError)

\* The *Stats in a list.
Listed(r) == {r[i] : i \in 1..Len(r)}

\* D is an ancestor directory of the path: the root, or what precedes one of
\* the path's later separators.
Ancestor(D, path) ==
    \/ D = <<Slash>>
    \/ /\ Len(D) >= 1
       /\ Len(D) < Len(path)
       /\ path[Len(D) + 1] = Slash
       /\ SubSeq(path, 1, Len(D)) = D

\* Line i is an accepted record of label L with D among its ancestors.
Counted(i, L, D) ==
    /\ Passes(input[i])
    /\ input[i].gid \in DOMAIN gidToBom
    /\ gidToBom[input[i].gid] = L
    /\ Ancestor(D, input[i].path)

RECURSIVE SizeCounted(_, _, _)
\* The sizes of the first n lines that are counted on (L, D), summed.
SizeCounted(n, L, D) ==
    IF n = 0 THEN 0
    ELSE SizeCounted(n - 1, L, D) + (IF Counted(n, L, D) THEN input[n].size ELSE 0)

\* Every directory a record of the input can have, and every one aggregated.
Dirs ==
    UNION {{SubSeq(p, 1, k) : k \in 1..Len(p)} : p \in Paths}
    \cup {heap[k].Directory : k \in 1..Len(heap)}

Labels == {gidToBom[g] : g \in DOMAIN gidToBom} \cup {heap[k].BoM : k \in 1..Len(heap)}

AcceptedUnmapped(item) == Passes(item) /\ item.gid \notin DOMAIN gidToBom

\* C1: once a record that passed the filter has a GID that is in no line of
\* the ownership table, nothing after it is read and BoMDirectoryStats returns
\* ErrInvalidGID with a nil slice, whatever was accumulated before.
C1_UnmappedGIDFailsWithNoStats ==
    \A i \in 1..Consumed :
        AcceptedUnmapped(input[i]) =>
            /\ Consumed = i
            /\ \/ pc = "body"
               \/ pc = "done" /\ err = ErrInvalidGID /\ ret = <<>>

\* A run that accumulated a record and then failed on an unmapped GID.
C1_Witness ==
    /\ pc = "done"
    /\ err = ErrInvalidGID
    /\ Consumed > 1
    /\ AcceptedUnmapped(input[Consumed])
    /\ Len(results) > 0
    /\ ret = <<>>

\* C2: when the Parser has stopped on a malformed line, BoMDirectoryStats
\* returns the Parser's error.
C2_ParserErrorReturned == (pc = "done" /\ Err(sp) # NoError) => err = Err(sp)

\* C3: between records, and in what is returned, the entry of label L and
\* directory D counts exactly the accepted records of L that have D as an
\* ancestor and sums their sizes; no entry exists for anything else, and every
\* entry is returned.
C3_CountAndSizePerAncestor ==
    (AtLoopBoundary /\ NoBlankConsumed) =>
        /\ \A L \in Labels, D \in Dirs :
              LET entries == {k \in Listed(results) :
                                 heap[k].BoM = L /\ heap[k].Directory = D}
                  n == Cardinality({i \in 1..Consumed : Counted(i, L, D)})
              IN  /\ n > 0 => entries # {}
                  /\ \A k \in entries :
                        /\ heap[k].Count = n
                        /\ heap[k].Size = SizeCounted(Consumed, L, D)
        /\ Listed(results) = 1..Len(heap)
        /\ pc = "done" => Listed(ret) = Listed(results) /\ Len(ret) = Len(results)

\* Two records of different sizes were accumulated on one directory below the
\* root, and the result was returned.
C3_Witness ==
    /\ pc = "done"
    /\ err = NoError
    /\ NoBlankConsumed
    /\ \E i \in 1..Len(ret) :
          /\ heap[ret[i]].Directory # <<Slash>>
          /\ heap[ret[i]].Count = 2
          /\ heap[ret[i]].Size = 3

\* The (BoM, Directory) pair of an entry.
KeyOf(k) == <<heap[k].BoM, heap[k].Directory>>

NoDuplicates(r) == \A i, j \in 1..Len(r) : i # j => KeyOf(r[i]) # KeyOf(r[j])

\* C4: neither the results being built nor the list returned ever holds two
\* entries with the same (BoM, Directory) pair.
C4_NoDuplicateEntries == NoDuplicates(results) /\ NoDuplicates(ret)

\* A second record reached a directory below the root that already had its
\* entry, and the result was returned.
C4_Witness ==
    /\ pc = "done"
    /\ Len(ret) >= 2
    /\ \E i \in 1..Len(ret) :
          heap[ret[i]].Directory # <<Slash>> /\ heap[ret[i]].Count >= 2

\* The proper ancestor directories of a directory, up to the root.
ProperAncestors(D) ==
    IF D = <<Slash>> THEN {}
    ELSE {<<Slash>>} \cup {SubSeq(D, 1, j) : j \in {j \in 1..(Len(D) - 1) : D[j + 1] = Slash}}

ChainComplete(r) ==
    \A k \in Listed(r) :
        \A A \in ProperAncestors(heap[k].Directory) :
            \E a \in Listed(r) : heap[a].BoM = heap[k].BoM /\ heap[a].Directory = A

\* C5: for every entry, each proper ancestor of its directory up to the root
\* has an entry under the same BoM, in the results being built and in the list
\* returned.
C5_NoMissingAncestors == ChainComplete(results) /\ ChainComplete(ret)

\* The result returned has an entry two levels below the root and entries of
\* two BoMs.
C5_Witness ==
    /\ pc = "done"
    /\ \E i \in 1..Len(ret) : Cardinality(ProperAncestors(heap[ret[i]].Directory)) = 2
    /\ \E i, j \in 1..Len(ret) : heap[ret[i]].BoM # heap[ret[j]].BoM

\* The directory a path or a directory other than the root lies in.
ParentDir(d) ==
    LET j == CHOOSE x \in 1..Len(d) :
                 d[x] = Slash /\ \A y \in 1..Len(d) : d[y] = Slash => y <= x
    IN  IF j <= 1 THEN <<Slash>> ELSE SubSeq(d, 1, j - 1)

\* The entries of the direct child directories of entry k.
ChildEntries(k) ==
    {c \in Listed(results) :
        /\ heap[c].BoM = heap[k].BoM
        /\ heap[c].Directory # <<Slash>>
        /\ ParentDir(heap[c].Directory) = heap[k].Directory}

\* The accepted records of entry k's BoM that lie directly in its directory.
DirectRecords(k) ==
    {i \in 1..Consumed :
        /\ Passes(input[i])
        /\ input[i].gid \in DOMAIN gidToBom
        /\ gidToBom[input[i].gid] = heap[k].BoM
        /\ ParentDir(input[i].path) = heap[k].Directory}

RECURSIVE SumSize(_)
SumSize(S) ==
    IF S = {} THEN 0
    ELSE LET c == CHOOSE c \in S : TRUE IN heap[c].Size + SumSize(S \ {c})

RECURSIVE SumCount(_)
SumCount(S) ==
    IF S = {} THEN 0
    ELSE LET c == CHOOSE c \in S : TRUE IN heap[c].Count + SumCount(S \ {c})

RECURSIVE SumRecordSize(_)
SumRecordSize(S) ==
    IF S = {} THEN 0
    ELSE LET i == CHOOSE i \in S : TRUE IN input[i].size + SumRecordSize(S \ {i})

\* C6: the Size of every entry is the sum of the Sizes of its direct child
\* directories' entries plus the sizes of the accepted records directly in its
\* directory, and its Count the sum of their Counts plus the number of those
\* records.
C6_ParentIsSumOfChildren ==
    (AtLoopBoundary /\ NoBlankConsumed) =>
        \A k \in Listed(results) :
            /\ heap[k].Size = SumSize(ChildEntries(k)) + SumRecordSize(DirectRecords(k))
            /\ heap[k].Count = SumCount(ChildEntries(k)) + Cardinality(DirectRecords(k))

\* An entry with a child directory and a record of its own, after the return.
C6_Witness ==
    /\ pc = "done"
    /\ err = NoError
    /\ NoBlankConsumed
    /\ \E k \in Listed(ret) : ChildEntries(k) # {} /\ DirectRecords(k) # {}

\* a <= b as strings.
LexLeq(a, b) ==
    \/ Len(a) <= Len(b) /\ SubSeq(b, 1, Len(a)) = a
    \/ \E k \in 1..Min2(Len(a), Len(b)) :
          SubSeq(a, 1, k - 1) = SubSeq(b, 1, k - 1) /\ a[k] < b[k]

\* The number of '/' in a directory.
Depth(d) == Cardinality({i \in 1..Len(d) : d[i] = Slash})

InOrder(a, b) ==
    \/ a.Size > b.Size
    \/ a.Size = b.Size /\ Depth(a.Directory) < Depth(b.Directory)
    \/ /\ a.Size = b.Size
       /\ Depth(a.Directory) = Depth(b.Directory)
       /\ LexLeq(a.Directory, b.Directory)

\* C7: every two adjacent entries of the returned list are in order: larger
\* Size first, then fewer separators in the Directory, then the Directory
\* that is not the greater string.
C7_ReturnedListOrdered ==
    \A i \in 1..(Len(ret) - 1) : InOrder(heap[ret[i]], heap[ret[i + 1]])

\* A returned list with a drop in Size, a tie in Size broken by depth and a tie
\* in Size and depth broken by name.
C7_Witness ==
    /\ pc = "done"
    /\ \E i \in 1..(Len(ret) - 1) : heap[ret[i]].Size > heap[ret[i + 1]].Size
    /\ \E i \in 1..(Len(ret) - 1) :
          /\ heap[ret[i]].Size = heap[ret[i + 1]].Size
          /\ Depth(heap[ret[i]].Directory) < Depth(heap[ret[i + 1]].Directory)
    /\ \E i \in 1..(Len(ret) - 1) :
          /\ heap[ret[i]].Size = heap[ret[i + 1]].Size
          /\ Depth(heap[ret[i]].Directory) = Depth(heap[ret[i + 1]].Directory)
          /\ heap[ret[i]].Directory # heap[ret[i + 1]].Directory

\* C8: no two distinct entries of the returned list compare as equal under the
\* sorter's comparison, so their order does not hang on the order in which
\* they were produced.
C8_NoTwoEntriesCompareEqual ==
    \A i, j \in 1..Len(ret) :
        i # j => SortCompare(heap[ret[i]], heap[ret[j]]) # 0

\* C9: with the age filter set, a call of Scan skips only record lines that
\* are not a regular file whose earlier time is at or before the cutoff, and a
\* record line it stops at is handed to the caller exactly if it is such a
\* file; the fields the caller then sees are the ones written in the line.
C9_FilterPassesIffOldFile ==
    [][pc = "scan" =>
        /\ sp.filter = "filterForOldFiles"
        /\ \A i \in (Consumed + 1)..(Consumed' - 1) :
              input[i].kind = "rec" /\ ~Passes(input[i])
        /\ (Consumed' > Consumed /\ input[Consumed'].kind = "rec") =>
              /\ pc' = "body" <=> Passes(input[Consumed'])
              /\ sp'.EntryType = input[Consumed'].etype
              /\ sp'.MTime = input[Consumed'].mtime
              /\ sp'.CTime = input[Consumed'].ctime
              /\ pc' = "body" =>
                    /\ sp'.EntryType = fileType
                    /\ Earlier(sp'.MTime, sp'.CTime) <= sp'.epochTimeDesired
      ]_vars

\* Scan skipped a file with both times after the cutoff and handed out one
\* whose earlier time is exactly the cutoff.
C9_Witness ==
    /\ pc = "body"
    /\ Consumed = 2
    /\ input[1].kind = "rec"
    /\ input[1].etype = fileType
    /\ ~Passes(input[1])
    /\ Passes(input[2])
    /\ Earlier(sp.MTime, sp.CTime) = sp.epochTimeDesired

\* C10 as stated: a record handed to the caller has neither its MTime nor its
\* CTime after the cutoff.
C10_AnyRecentTimeRejects ==
    (pc = "body" /\ Consumed > 0 /\ input[Consumed].kind = "rec") =>
        /\ sp.MTime <= sp.epochTimeDesired
        /\ sp.CTime <= sp.epochTimeDesired

\* C10 amended: with the age filter set, a regular file is rejected for its
\* age only when both its MTime and its CTime are after the cutoff: Scan skips
\* a regular file's line only then, never hands out a record with both times
\* after the cutoff, and hands out the regular file it stops at when one of
\* its times is at or before the cutoff.
C10_RejectedOnlyIfBothTimesRecent ==
    [][pc = "scan" =>
        /\ \A i \in (Consumed + 1)..(Consumed' - 1) :
              input[i].etype = fileType =>
                  input[i].mtime > CutoffEpoch /\ input[i].ctime > CutoffEpoch
        /\ (Consumed' > Consumed /\ input[Consumed'].kind = "rec") =>
              LET r == input[Consumed']
              IN  /\ (r.mtime > CutoffEpoch /\ r.ctime > CutoffEpoch) => pc' # "body"
                  /\ (/\ r.etype = fileType
                      /\ r.mtime <= CutoffEpoch \/ r.ctime <= CutoffEpoch) => pc' = "body"
      ]_vars

\* Scan handed out a file whose MTime is after the cutoff and whose CTime is
\* not.
C10_Witness ==
    /\ pc = "body"
    /\ Consumed > 0
    /\ input[Consumed].kind = "rec"
    /\ sp.MTime > sp.epochTimeDesired
    /\ sp.CTime <= sp.epochTimeDesired

\* The Parser's Size, GID, MTime, CTime and EntryType are the columns of the
\* record the item was written from.
ExposesColumnsOf(p, item) ==
    /\ p.Size = item.size
    /\ p.GID = item.gid
    /\ p.MTime = item.mtime
    /\ p.CTime = item.ctime
    /\ p.EntryType = item.etype

\* C11: with the age filter set, the caller only observes accepted records:
\* whenever Scan has returned true, the Size, GID, MTime, CTime and EntryType
\* of the Parser are those of no line that the filter rejected, whatever the
\* input, blank lines included.
C11_RejectedLineNeverExposed ==
    (pc = "body" /\ sp.filter = "filterForOldFiles") =>
        \A i \in 1..Consumed :
            (input[i].kind = "rec" /\ ~Passes(input[i])) => ~ExposesColumnsOf(sp, input[i])

\* The lines of the input that are not empty.
WithoutBlankLines ==
    LET kept == SelectSeq(input, LAMBDA item : LineOf(item) # BlankLine)
    IN  [i \in 1..Len(kept) |-> LineOf(kept[i])]

\* Every record line of the input is an old file's of a GID of the table.
AllAcceptedAndMapped ==
    \A i \in 1..Len(input) :
        input[i].kind = "rec" => Passes(input[i]) /\ input[i].gid \in DOMAIN gidToBom

\* C12: a blank line between the lines of two records that pass the filter
\* and have known GIDs changes nothing: BoMDirectoryStats returns no error
\* and the Stats that it returns on the two lines without the blank line.
C12_BlankLineChangesNothing ==
    (pc = "done" /\ AllAcceptedAndMapped) =>
        /\ err = NoError
        /\ BoMDirectoryStats(WithoutBlankLines).err = NoError
        /\ StatsOf(heap, ret) = BoMDirectoryStats(WithoutBlankLines).stats

\* The lines of the input that are not those of records of another entry
\* type than 'f'.
WithoutNonFileLines ==
    LET kept == SelectSeq(input, LAMBDA item : ~(item.kind = "rec" /\ item.etype # fileType))
    IN  [i \in 1..Len(kept) |-> LineOf(kept[i])]

\* C13: the lines of entries that are no regular files contribute nothing,
\* whatever their times and whatever precedes or follows them: the Stats that
\* BoMDirectoryStats returns are those that it returns on the input without
\* these lines.
C13_NonFileLinesContributeNothing ==
    pc = "done" => StatsOf(heap, ret) = BoMDirectoryStats(WithoutNonFileLines).stats

\* The line that the last call of Scan stopped at.
LastLine == LineOf(input[Consumed])

\* A step that is a call of Scan that read lines: it returned (or panicked)
\* on the last of them.
ScanReadLines == pc = "scan" /\ Consumed' > Consumed

\* The number of tabs of a line.
TabCount(line) == Cardinality({i \in 1..Len(line) : line[i] = TAB})

\* The line ends before its eighth column: it has fewer than seven tabs, or
\* seven of which the last ends the line.
EndsBeforeEntryKind(line) ==
    \/ TabCount(line) < 7
    \/ TabCount(line) = 7 /\ line[Len(line)] = TAB

\* C14: on a line of more than one byte that ends before its entry-kind
\* column, a trailing tab after fewer than 8 columns included, Scan returns
\* false and Err() returns ErrTooFewColumns.
C14_TooFewColumnsReported ==
    [][(ScanReadLines /\ Len(LastLine') > 1 /\ EndsBeforeEntryKind(LastLine')) =>
          pc' = "eof" /\ Err(sp') = ErrTooFewColumns
      ]_vars

\* The item is a record's line, with or without a column after the entry
\* type.
WellFormed(item) == item.kind \in {"rec", "rec8"}

\* The record of the item satisfies the filter that the Parser has.
PassesActiveFilter(item) ==
    \/ sp.filter = "noFilter"
    \/ item.etype = fileType /\ Earlier(item.mtime, item.ctime) <= sp.epochTimeDesired

\* C15: a record's line that the active filter accepts is decoded whether it
\* ends with its entry kind, the eighth column, or has further columns: Scan
\* returns true without error and the Parser holds the record's Size, GID,
\* MTime, CTime, EntryType and Path.
C15_EightColumnsSuffice ==
    [][(/\ ScanReadLines
        /\ WellFormed(input[Consumed'])
        /\ PassesActiveFilter(input[Consumed'])) =>
          /\ pc' = "body"
          /\ Err(sp') = NoError
          /\ ExposesColumnsOf(sp', input[Consumed'])
          /\ Path(sp') = input[Consumed'].path
      ]_vars

\* The lines of an old file, which every filter accepts, with a path column
\* that is no base64: one with a column after the entry kind and one without.
BadPathItems == {RawItem(BadPathLine), RawItem(BadPathEightColumns)}

\* C16: on a line that has all 8 columns, that the active filter accepts and
\* whose path column is no valid base64, Scan returns false and Err() returns
\* ErrBadPath.
C16_BadPathReported ==
    [][(ScanReadLines /\ input[Consumed'] \in BadPathItems) =>
          pc' = "eof" /\ Err(sp') = ErrBadPath
      ]_vars

\* The record fields of two Parsers are the same.
SameRecord(p, q) ==
    /\ Path(p) = Path(q)
    /\ p.Size = q.Size
    /\ p.GID = q.GID
    /\ p.MTime = q.MTime
    /\ p.CTime = q.CTime
    /\ p.EntryType = q.EntryType

\* The Parser as it is when the call of Scan that is being made reaches the
\* last line it reads: after the lines that it skips before it.
AtLastLineRead ==
    Scan([sp EXCEPT !.scanner.rest = SubSeq(@, 1, Consumed' - Consumed - 1)]).p

\* C17: a call of Scan that comes to a line of length 0 or 1 returns true,
\* Err() stays nil, and Path, Size, GID, MTime, CTime and EntryType are left
\* as they were: as before the call when this is the line the call reads, as
\* the skipped lines left them otherwise.  On an empty input the first Scan
\* returns false and Err() is nil.
C17_BlankLineIsNoOp ==
    [][/\ (ScanReadLines /\ Len(LastLine') <= 1) =>
             /\ pc' = "body"
             /\ Err(sp) = NoError
             /\ Err(sp') = NoError
             /\ Consumed' = Consumed + 1 => SameRecord(sp', sp)
             /\ SameRecord(sp', AtLastLineRead)
       /\ (pc = "scan" /\ input = <<>> /\ sp.scanner.end = EOF) =>
             pc' = "eof" /\ Err(sp') = NoError
      ]_vars

\* Scan returned true on a line of one byte, after a record, and the Parser
\* still holds that record.
C17_Witness ==
    /\ pc = "body"
    /\ Consumed = 2
    /\ Passes(input[1])
    /\ Len(LastLine) = 1
    /\ sp.lineBytes = LastLine
    /\ ExposesColumnsOf(sp, input[1])
    /\ Path(sp) = input[1].path

\* C18: once Scan has returned false, Err() returns the first error met
\* that is not the end of the file, the failure of the line scanner (such as
\* on an over-long line) included, and it is nil only when there was none:
\* then every line has been read.
C18_ErrReportsScannerFailure ==
    pc = "eof" =>
        /\ sp.scanner.err # NoError => Err(sp) = sp.scanner.err
        /\ Err(sp) = NoError => sp.scanner.rest = <<>> /\ sp.scanner.err = NoError

\* The columns of a line of bom.gids data as the format has them: the line
\* without the white space around it, cut at its tabs.
Trimmed(line) ==
    LET black == {i \in 1..Len(line) : ~IsSpace(line[i])}
    IN  IF black = {} THEN <<>>
        ELSE SubSeq(line, CHOOSE i \in black : \A j \in black : i <= j,
                          CHOOSE i \in black : \A j \in black : i >= j)

\* The pieces of s between the separators: the stretches without a separator
\* that a separator or an end of s bounds on both sides.
Pieces(s, sep) ==
    LET cut == {0, Len(s) + 1} \cup {i \in 1..Len(s) : s[i] = sep}
    IN  {SubSeq(s, a + 1, b - 1) : <<a, b>> \in
            {c \in cut \X cut : c[1] < c[2] /\ \A i \in (c[1] + 1)..(c[2] - 1) : i \notin cut}}

\* A decimal integer: digits, after at most one sign.
IsDecimalInteger(s) ==
    LET digits == IF s # <<>> /\ s[1] \in {PlusSign, MinusSign} THEN Tail(s) ELSE s
    IN  /\ digits # <<>>
        /\ \A i \in 1..Len(digits) : digits[i] \in ZeroDigit..(ZeroDigit + 9)

\* What follows the tab of a line of two columns.
GIDColumn(line) ==
    LET t == Trimmed(line)
    IN  SubSeq(t, (CHOOSE i \in 1..Len(t) : t[i] = TAB) + 1, Len(t))

\* The line is no valid line of bom.gids data.
InvalidBomGidsLine(line) ==
    \/ TabCount(Trimmed(line)) # 1
    \/ \E g \in Pieces(GIDColumn(line), Comma) : ~IsDecimalInteger(g)

\* The line names the GID.
Mentions(line, gid) ==
    /\ ~InvalidBomGidsLine(line)
    /\ Pieces(GIDColumn(line), Comma) \cap {Digits(gid), <<PlusSign>> \o Digits(gid)} # {}

\* The label of a line: its first column without the spaces.
LabelOf(line) ==
    LET t == Trimmed(line)
    IN  SelectSeq(SubSeq(t, 1, (CHOOSE i \in 1..Len(t) : t[i] = TAB) - 1),
                  LAMBDA b : b # Space)

\* C19: GetBom returns, with a nil error, the label of a GID that is in the
\* ownership table parsed (that of the last line naming it); for every other
\* GID it returns ErrInvalidGID and the empty label, never a default.
C19_GetBomLabelOrInvalidGID ==
    \A k \in 1..Len(lookup) :
        LET naming == {i \in 1..Len(bomGids.lines) : Mentions(bomGids.lines[i], lookup[k].gid)}
        IN  IF naming # {} THEN
                /\ lookup[k].err = NoError
                /\ lookup[k].bom =
                      LabelOf(bomGids.lines[CHOOSE i \in naming : \A j \in naming : i >= j])
            ELSE
                /\ lookup[k].err = ErrInvalidGID
                /\ lookup[k].bom = <<>>

\* GetBom returned the label "HG" of the second line for a GID that both
\* lines of the data name.
C19_Witness ==
    /\ Len(lookup) = 1
    /\ bomGids.lines = <<BomGidsData[1], SpacedLine>>
    /\ Mentions(BomGidsData[1], lookup[1].gid)
    /\ Mentions(SpacedLine, lookup[1].gid)
    /\ lookup[1].err = NoError
    /\ lookup[1].bom = <<72, 71>>

\* C20: NewGIDToBoM returns an error and no table when a line of the data,
\* trimmed, has not exactly two tab-separated columns (as a blank line has
\* not) or has a GID that is no decimal integer; of empty data it makes the
\* empty table without error.
C20_InvalidDataFailsToLoad ==
    pc = "loaded" =>
        /\ (\E i \in 1..Len(bomGids.lines) : InvalidBomGidsLine(bomGids.lines[i])) =>
              gpErr # NoError /\ gp.isNil
        /\ (bomGids.lines = <<>> /\ bomGids.end = EOF) =>
              gpErr = NoError /\ ~gp.isNil /\ DOMAIN gp.gidToBom = {}

\* NewGIDToBoM failed on the second line, a GID that is no number, after a
\* valid first line.
C20_Witness ==
    /\ pc = "loaded"
    /\ Len(bomGids.lines) = 2
    /\ ~InvalidBomGidsLine(bomGids.lines[1])
    /\ bomGids.lines[2] = NoNumberLine
    /\ bomGids.end = EOF
    /\ gpErr = ErrSyntax
    /\ gp.isNil

RejectedByActiveFilter(item) ==
    item.kind \in {"rec", "rec8", "rawpath"} /\ ~PassesActiveFilter(item)

\* Every line that the call of Scan reads is rejected by the filter or blank:
\* the call comes to no line whose path it is to decode.
ReadsNoLineToDecode ==
    \A i \in (Consumed + 1)..Consumed' :
        RejectedByActiveFilter(input[i]) \/ Len(LineOf(input[i])) <= 1

\* C22: the filter is asked before the path is decoded.  A call of Scan that
\* reads only lines the filter rejects (and blank lines) does not end with
\* ErrBadPath, whatever the path columns hold, and leaves Path and
\* pathBuffer as they were; after a rejected line the call goes on to the
\* next line: it returns on a rejected line only at the end of the input,
\* with false and without error.
C22_RejectedLineIsNotDecoded ==
    [][/\ (ScanReadLines /\ ReadsNoLineToDecode) =>
             /\ Err(sp') = NoError
             /\ Path(sp') = Path(sp)
             /\ sp'.pathBuffer = sp.pathBuffer
       /\ (ScanReadLines /\ RejectedByActiveFilter(input[Consumed'])) =>
             /\ Consumed' = Len(input)
             /\ pc' = "eof"
      ]_vars

\* After an old file, Scan read the rejected line whose path column is no
\* base64 and returned false at the end of the input: the Parser has no error
\* and still holds the path of the file.
C22_Witness ==
    /\ pc = "eof"
    /\ Consumed = 2
    /\ Passes(input[1])
    /\ input[2] = ABadPathDirectory
    /\ sp.filter = "filterForOldFiles"
    /\ Err(sp) = NoError
    /\ Path(sp) = input[1].path

\* C23: during a run of BoMDirectoryStats, with record sizes that are not
\* negative, Stats are only made and added to: each step keeps every Stats
\* there is, in the results and under its label, with its BoM and its
\* Directory, and with a Count and a Size that are not smaller than before.
C23_StatsOnlyGrow ==
    [][/\ Len(heap') >= Len(heap)
       /\ \A i \in 1..Len(heap) :
             /\ heap'[i].BoM = heap[i].BoM
             /\ heap'[i].Directory = heap[i].Directory
             /\ heap'[i].Count >= heap[i].Count
             /\ heap'[i].Size >= heap[i].Size
       /\ Len(results') >= Len(results)
       /\ SubSeq(results', 1, Len(results)) = results
       /\ \A b \in DOMAIN bomToStats :
             b \in DOMAIN bomToStats' /\ bomToStats'[b] = bomToStats[b]
      ]_vars

\* Two records were accumulated: an entry was made by the first and added to
\* by the second, which also made an entry.
C23_Witness ==
    /\ pc = "scan"
    /\ Consumed = 2
    /\ input[1].size > input[2].size
    /\ \E i \in 1..Len(heap) :
          heap[i].Count = 2 /\ heap[i].Size = input[1].size + input[2].size
    /\ \E i \in 1..Len(heap) : heap[i].Count = 1 /\ heap[i].Size = input[2].size

\* The label of a record's GID.
LabelOfRecord(item) == gidToBom[item.gid]

\* The directories of a path as the flat map keys them: its prefixes that end
\* with a slash.
DirectoriesOf(path) == {Slice(path, 0, i) : i \in {j \in 1..Len(path) : path[j] = Slash}}

\* The number of the records accumulated so far that have the label and lie
\* in the directory.
RecordsUnder(bom, dir) ==
    Cardinality({k \in 1..Consumed :
                    LabelOfRecord(input[k]) = bom /\ dir \in DirectoriesOf(input[k].path)})

\* C24: in the aggregator with the flat map, what is kept of a record's Path
\* does not change when later calls of Scan overwrite the pathBuffer: the
\* directory of every key of the map reads as the directory that it was
\* stored for, the Directory of its Stats is that directory, and between the
\* records every Stats counts the records of its label in its directory: a
\* later record in the same directory found it and one in another directory
\* did not.
C24_RetainedPathsKeepTheirValue ==
    \A i \in 1..Len(bomToDirToStats) :
        LET e == bomToDirToStats[i]
        IN  /\ KeyDirectory(sp.pathBuffer, e.key) = e.filed
            /\ heap[e.stats].Directory = Slice(e.filed, 0, Len(e.filed) - 1)
            /\ pc = "scan" => heap[e.stats].Count = RecordsUnder(e.key.bom, e.filed)

\* A step that accumulates the record that the Parser holds.
Accumulates == pc = "body" /\ pc' = "scan"

\* The first two lines are old files of different GIDs with one label and
\* one path.
TwoGIDsOfOneLabel ==
    /\ Len(input) >= 2
    /\ Passes(input[1]) /\ Passes(input[2])
    /\ input[1].gid # input[2].gid
    /\ input[1].gid \in DOMAIN gidToBom /\ input[2].gid \in DOMAIN gidToBom
    /\ gidToBom[input[1].gid] = gidToBom[input[2].gid]
    /\ input[1].path = input[2].path

\* C25: accumulating a record whose GID has label X changes no Stats of
\* another label: those there are stay as they are, those made have label X,
\* and the root of no other label changes.  Records of different GIDs with
\* one label are accumulated into the same Stats: after two such records of
\* one path every Stats has counted both.
C25_OnlyOwnLabelChanges ==
    [][Accumulates =>
          /\ \A i \in 1..Len(heap) :
                heap[i].BoM # gidToBom[sp.GID] => heap'[i] = heap[i]
          /\ \A i \in (Len(heap) + 1)..Len(heap') : heap'[i].BoM = gidToBom[sp.GID]
          /\ \A b \in DOMAIN bomToStats' :
                b # gidToBom[sp.GID] => b \in DOMAIN bomToStats /\ bomToStats'[b] = bomToStats[b]
          /\ (Consumed = 2 /\ TwoGIDsOfOneLabel) =>
                /\ Len(heap') = Len(heap)
                /\ \A i \in 1..Len(heap') :
                      /\ heap'[i].Count = 2
                      /\ heap'[i].Size = input[1].size + input[2].size
      ]_vars

\* A record of a second label was accumulated below the root while the
\* first label had its Stats, which are as its one record left them.
C25_Witness ==
    /\ pc = "scan"
    /\ Consumed = 2
    /\ Passes(input[1]) /\ Passes(input[2])
    /\ input[1].path = input[2].path
    /\ \E i, j \in 1..Len(heap) :
          /\ heap[i].BoM = BomX /\ heap[j].BoM = BomY
          /\ heap[i].Directory = heap[j].Directory
          /\ heap[i].Directory # <<Slash>>
          /\ heap[i].Count = 1 /\ heap[j].Count = 1

\* Two records of the GIDs 1 and 13, both of label "X", were accumulated.
C25_TwoGIDsAccumulated == pc = "scan" /\ Consumed = 2 /\ TwoGIDsOfOneLabel

\* The GID that the Parser holds is that of a line read that the filter
\* rejects, and of no line read that it accepts.
HoldsGIDOfRejectedLine ==
    /\ \E i \in 1..Consumed :
          input[i].kind = "rec" /\ ~Passes(input[i]) /\ input[i].gid = sp.GID
    /\ \A i \in 1..Consumed : Passes(input[i]) => input[i].gid # sp.GID

\* C26: GetBom is called only for records that passed the filter: a line that
\* the filter rejects, for its entry type or its times, never makes
\* BoMDirectoryStats fail with ErrInvalidGID: when it fails so, the GID that
\* was looked up is not one that only a rejected line has.
C26_RejectedLineIsNotLookedUp ==
    (pc = "done" /\ err = ErrInvalidGID) => ~HoldsGIDOfRejectedLine

\* C27: with record sizes that are not negative, every entry of the returned
\* list comes after the entries of all proper ancestors of its directory
\* under the same BoM.
C27_AncestorsComeFirst ==
    \A i, j \in 1..Len(ret) :
        (/\ heap[ret[j]].BoM = heap[ret[i]].BoM
         /\ heap[ret[j]].Directory \in ProperAncestors(heap[ret[i]].Directory)) => j < i

\* The returned list has a directory two levels below the root with the Size
\* of its root, so that separators and names decide their order.
C27_Witness ==
    /\ pc = "done"
    /\ \E i, j \in 1..Len(ret) :
          /\ heap[ret[j]].BoM = heap[ret[i]].BoM
          /\ heap[ret[j]].Directory = <<Slash>>
          /\ Cardinality(ProperAncestors(heap[ret[i]].Directory)) = 2
          /\ heap[ret[j]].Size = heap[ret[i]].Size

\* C28: a call of Scan that records an error returns false, and while every
\* call of Scan so far has returned true Err() is nil: the error of the
\* Parser changes only in a call of Scan that returns false, and it is nil
\* before the first call, between the calls and in the body of the loop.
C28_ErrorMeansScanReturnedFalse ==
    /\ [](pc \in {"start", "scan", "body"} => Err(sp) = NoError)
    /\ [][Err(sp') # Err(sp) => pc = "scan" /\ pc' = "eof"]_vars

\* After a call that returned true on an old file, a call of Scan recorded
\* ErrBadPath and returned false.
C28_Witness ==
    /\ pc = "eof"
    /\ Consumed = 2
    /\ Passes(input[1])
    /\ input[2] \in BadPathItems
    /\ Err(sp) = ErrBadPath

EveryLineRejected ==
    Len(input) > 0 /\ \A i \in 1..Len(input) : RejectedByActiveFilter(input[i])

RECURSIVE ReachableFrom(_)
\* The nodes that are reached from the nodes S through children.
ReachableFrom(S) ==
    LET T == S \cup UNION {Listed(heap[k].children) : k \in S}
    IN  IF T = S THEN S ELSE ReachableFrom(T)

\* The roots of the labels.
Roots == {bomToStats[b] : b \in DOMAIN bomToStats}

\* The number of times a node is in a list.
Occurrences(r, k) == Cardinality({i \in 1..Len(r) : r[i] = k})

\* C30: after any calls of accumulateDirStats the children of every Stats are
\* strictly ascending by Directory, the binary search for the Directory of a
\* child finds it at its index, and every node reached from the root of a
\* label is exactly once in the results, as it is in the list returned.
C30_ChildrenSortedAndListedOnce ==
    /\ \A k \in 1..Len(heap) :
          LET c == heap[k].children
          IN  /\ \A i, j \in 1..Len(c) :
                    i < j => StrCompare(heap[c[i]].Directory, heap[c[j]].Directory) < 0
              /\ \A i \in 1..Len(c) :
                    BinarySearchFunc(heap, c, heap[c[i]].Directory) =
                        [i |-> i - 1, exists |-> TRUE]
    /\ \A k \in ReachableFrom(Roots) : Occurrences(results, k) = 1
    /\ (pc = "done" /\ err = NoError) =>
          \A k \in ReachableFrom(Roots) : Occurrences(ret, k) = 1

\* A second record made a child that sorts before the one the first record
\* made: it was inserted in front of it.
C30_Witness ==
    /\ pc = "scan"
    /\ Consumed = 2
    /\ \E k \in 1..Len(heap) :
          /\ Len(heap[k].children) = 2
          /\ heap[k].children[1] > heap[k].children[2]
    /\ Cardinality(ReachableFrom(Roots)) = Len(heap)

====
